---- MODULE Spec2Model ----
(***************************************************************************)
(* POWERPOPS resource reservation system (src/powerpops.py).               *)
(*                                                                         *)
(* The Store (class ResourceReservationSystem) is modelled as operators    *)
(* over a record holding the two tables as the connection sees them, the   *)
(* AUTOINCREMENT counter of the reservations table and the last committed  *)
(* contents.  The Presentation (the closures of main) is modelled as the   *)
(* page state machine with the rows each list control displays.            *)
(***************************************************************************)
EXTENDS Integers, Sequences, FiniteSets, TLC

VARIABLES
    resources,        \* table resources, as the connection sees it
    reservations,     \* table reservations, as the connection sees it
    seq,              \* sqlite_sequence of reservations (AUTOINCREMENT)
    committed,        \* the tables as of the last commit
    last,             \* the last Store call or GUI handler and its result
    page,             \* which page the controls of ft.Page make up
    resource_ui,      \* rows of the resource_ui column (one Remove button each)
    reservations_ui,  \* rows of the reservations_ui column
    list_ui,          \* rows of the list_ui column
    password_input,   \* password_input: its value and error_text
    reserve_feedback, \* reserve_feedback.value
    frame             \* delete_resource in progress: the loop of _reassign_ids

vars == <<resources, reservations, seq, committed, last, page, resource_ui,
          reservations_ui, list_ui, password_input, reserve_feedback, frame>>

gui ==
    <<page, resource_ui, reservations_ui, list_ui, password_input,
      reserve_feedback>>

(***************************************************************************)
(* Bounds of the model.                                                    *)
(***************************************************************************)
\* resources in the table
MaxResources == 2
\* reservations ever inserted through the Store's methods
MaxSeq == 2
\* reservations ever inserted through the reservation form
MaxGuiSeq == 3
\* resources in the table when the loop of _reassign_ids is followed step by step
MaxLoop == 3

(***************************************************************************)
(* Input values.  Text that the code strips or that SQLite converts is a   *)
(* sequence of pieces, " " being a blank and the digits being single       *)
(* characters; text that is only stored is a string.                       *)
(***************************************************************************)
Names == {"Room A", "Room B"}
Descriptions == {"desc"}
Dates == {<<"2024-01-01">>}
UserNames == {<<>>, <<" ">>, <<" ", "Bob">>}
Digits == <<"0", "1", "2", "3", "4", "5", "6", "7", "8", "9">>

\* A bound parameter for a resource id: a Python int, or a str.
IntParam(i) == [kind |-> "int", int |-> i, text |-> <<>>]
TextParam(t) == [kind |-> "text", int |-> 0, text |-> t]
IdParams ==
    {IntParam(i) : i \in 1..MaxResources}
        \cup {TextParam(t) : t \in {<<"0", "2">>, <<"x">>}}
IdTexts == {<<>>, <<"1">>, <<" ", "2">>, <<"0", "3", " ">>, <<"x">>}

\* Optional arguments: <<>> is None, <<v>> is the value v.
None == <<>>
Some(v) == <<v>>

\* no stripping at all
strip_nothing(t) == t

(***************************************************************************)
(* str.strip()                                                             *)
(***************************************************************************)
RECURSIVE lstrip(_)
lstrip(t) == IF t # <<>> /\ Head(t) = " " THEN lstrip(Tail(t)) ELSE t

RECURSIVE rstrip(_)
rstrip(t) ==
    IF t # <<>> /\ t[Len(t)] = " " THEN rstrip(SubSeq(t, 1, Len(t) - 1)) ELSE t

strip(t) == rstrip(lstrip(t))

(***************************************************************************)
(* SQLite's comparison of an INTEGER column with a bound parameter: an int *)
(* is compared as it is; text that is a well-formed integer literal is     *)
(* converted to that integer (numeric affinity), other text equals no      *)
(* integer.                                                                *)
(***************************************************************************)
DigitValue(c) == CHOOSE d \in 0..9 : Digits[d + 1] = c

IsDigit(c) == \E d \in 1..10 : Digits[d] = c

IsIntegerLiteral(t) == t # <<>> /\ \A i \in 1..Len(t) : IsDigit(t[i])

RECURSIVE IntegerValue(_)
IntegerValue(t) ==
    IF t = <<>> THEN 0
    ELSE 10 * IntegerValue(SubSeq(t, 1, Len(t) - 1)) + DigitValue(t[Len(t)])

HasIntegerValue(p) == p.kind = "int" \/ IsIntegerLiteral(p.text)

AsInteger(p) == IF p.kind = "int" THEN p.int ELSE IntegerValue(p.text)

IdEquals(id, p) == HasIntegerValue(p) /\ id = AsInteger(p)

(***************************************************************************)
(* The Store.  s is [resources, reservations, seq, committed, ret].        *)
(***************************************************************************)
Ids(rs) == {r.id : r \in rs}

Max(S) == CHOOSE m \in S : \A x \in S : x <= m

\* connection.commit()
commit(s) ==
    [s EXCEPT !.committed =
        [resources |-> s.resources, reservations |-> s.reservations,
         seq |-> s.seq]]

Returns(s, v) == [s EXCEPT !.ret = v]

\* the id of the last row, not the one after it
generate_resource_id_max(s) ==
    IF s.resources = {} THEN 1 ELSE Max(Ids(s.resources))

\* _generate_resource_id
generate_resource_id(s) ==
    IF s.resources = {} THEN 1 ELSE Max(Ids(s.resources)) + 1

\* add_resource: the row gets the column default available = 1; id is the
\* primary key, so the INSERT raises when the id is taken
add_resource(s, name, description) ==
    LET new_id == generate_resource_id(s)
        row == [id |-> new_id, name |-> name, description |-> description,
                available |-> 1]
    IN  IF new_id \in Ids(s.resources)
        THEN Returns(s, "sqlite3.IntegrityError")
        ELSE Returns(commit([s EXCEPT !.resources = @ \cup {row}]), "None")

\* view_resources: SELECT * FROM resources, in rowid order
RECURSIVE OrderById(_)
OrderById(rows) ==
    IF rows = {} THEN <<>>
    ELSE LET first == CHOOSE r \in rows : \A q \in rows : r.id <= q.id
         IN  <<first>> \o OrderById(rows \ {first})

view_resources(s) == OrderById(s.resources)

\* view_reservations: reservations joined with their resource's name
view_reservations(s) ==
    LET joined ==
            {[id |-> v.id, resource_id |-> v.resource_id,
              user_name |-> v.user_name, date |-> v.date, name |-> r.name] :
                <<v, r>> \in {p \in s.reservations \X s.resources :
                                 p[1].resource_id = p[2].id}}
    IN  OrderById(joined)

\* update_resource.  `if name:` and `if description:` skip None and "";
\* `if available is not None:` skips only None.  With no field to set the
\* statement is "UPDATE resources SET  WHERE id = ?", which SQLite rejects.
Truthy(opt) == opt # None /\ opt[1] # ""

update_resource(s, resource_id, name, description, available) ==
    LET updates ==
            (IF Truthy(name) THEN {"name"} ELSE {})
                \cup (IF Truthy(description) THEN {"description"} ELSE {})
                \cup (IF available # None THEN {"available"} ELSE {})
        set(r) ==
            [id |-> r.id,
             name |-> IF "name" \in updates THEN name[1] ELSE r.name,
             description |->
                IF "description" \in updates THEN description[1]
                ELSE r.description,
             available |->
                IF "available" \in updates THEN available[1] ELSE r.available]
    IN  IF updates = {} THEN Returns(s, "sqlite3.OperationalError")
        ELSE Returns(
                commit([s EXCEPT !.resources =
                    {IF r.id = resource_id THEN set(r) ELSE r : r \in @}]),
                "None")

\* the ids fetched in descending order
select_ids_descending(s) ==
    LET rows == OrderById(s.resources)
    IN  [i \in 1..Len(rows) |-> rows[Len(rows) + 1 - i].id]

\* SELECT id FROM resources ORDER BY id
select_ids(s) ==
    LET rows == OrderById(s.resources)
    IN  [i \in 1..Len(rows) |-> rows[i].id]

\* One iteration of the loop of _reassign_ids.  id is the primary key: the
\* first UPDATE raises when another row already holds the new id.
\* only the resources table is renumbered
reassign_iter_resources_only(s, index, old_id) ==
    IF index # old_id /\ old_id \in Ids(s.resources) /\ index \in Ids(s.resources)
    THEN Returns(s, "sqlite3.IntegrityError")
    ELSE [s EXCEPT
            !.resources =
                {IF r.id = old_id THEN [r EXCEPT !.id = index] ELSE r : r \in @}]

reassign_iter(s, index, old_id) ==
    IF index # old_id /\ old_id \in Ids(s.resources) /\ index \in Ids(s.resources)
    THEN Returns(s, "sqlite3.IntegrityError")
    ELSE [s EXCEPT
            !.resources =
                {IF r.id = old_id THEN [r EXCEPT !.id = index] ELSE r : r \in @},
            !.reservations =
                {IF v.resource_id = old_id THEN [v EXCEPT !.resource_id = index]
                 ELSE v : v \in @}]

\* no renumbering after the delete
reassign_ids_skipped(s) == commit(Returns(s, "None"))

RECURSIVE reassign_loop(_, _, _)
reassign_loop(s, fetched, index) ==
    IF index > Len(fetched) \/ s.ret # "None" THEN s
    ELSE reassign_loop(reassign_iter(s, index, fetched[index]), fetched, index + 1)

\* _reassign_ids: an exception leaves the loop and skips the commit
reassign_ids(s) ==
    LET done == reassign_loop(Returns(s, "None"), select_ids(s), 1)
    IN  IF done.ret = "None" THEN commit(done) ELSE done

\* only the resource row is deleted, its reservations stay
delete_rows_resource_only(s, resource_id) ==
    [s EXCEPT !.resources = {r \in @ : r.id # resource_id}]

\* The two DELETE statements of delete_resource
delete_rows(s, resource_id) ==
    [s EXCEPT
        !.reservations = {v \in @ : v.resource_id # resource_id},
        !.resources = {r \in @ : r.id # resource_id}]

delete_resource(s, resource_id) ==
    LET done == reassign_ids(delete_rows(s, resource_id))
    IN  IF done.ret = "None" THEN commit(done) ELSE done

(***************************************************************************)
(* create_reservation.  fault names the SQL step at which the database     *)
(* raises sqlite3.Error ("none": no error); rolled tells whether SQLite    *)
(* rolled the open transaction back on that error or left it open.         *)
(***************************************************************************)
FaultSteps == {"lookup", "insert", "update", "commit"}

rollback(s) ==
    [s EXCEPT !.resources = s.committed.resources,
              !.reservations = s.committed.reservations,
              !.seq = s.committed.seq]

raise(s, rolled) == Returns(IF rolled THEN rollback(s) ELSE s, "sqlite3.Error")

\* INSERT INTO reservations: AUTOINCREMENT id, resource_id with INTEGER affinity
insert_reservation(s, resource_id, user_name, date) ==
    [s EXCEPT
        !.reservations = @ \cup
            {[id |-> s.seq + 1, resource_id |-> AsInteger(resource_id),
              user_name |-> user_name, date |-> date]},
        !.seq = @ + 1]

\* the availability UPDATE is left out
set_unavailable_skipped(s, resource_id) == s

\* UPDATE resources SET available = 0 WHERE id = ?
set_unavailable(s, resource_id) ==
    [s EXCEPT !.resources =
        {IF IdEquals(r.id, resource_id) THEN [r EXCEPT !.available = 0] ELSE r :
            r \in @}]

\* The body of the try block
try_create_reservation(s, resource_id, user_name, date, fault, rolled) ==
    IF strip(user_name) = <<>> THEN Returns(s, "False")
    ELSE IF fault = "lookup" THEN raise(s, rolled)
    ELSE LET found == {r \in s.resources : IdEquals(r.id, resource_id)}
         IN  IF found = {} THEN Returns(s, "False")
             ELSE IF (CHOOSE r \in found : TRUE).available = 0
                  THEN Returns(s, "False")
             ELSE IF fault = "insert" THEN raise(s, rolled)
             ELSE LET inserted == insert_reservation(s, resource_id, user_name, date)
                  IN  IF fault = "update" THEN raise(inserted, rolled)
                      ELSE LET updated == set_unavailable(inserted, resource_id)
                           IN  IF fault = "commit" THEN raise(updated, rolled)
                               ELSE Returns(commit(updated), "True")

\* no except clause: the error leaves create_reservation
except_nothing(s) == s

\* except sqlite3.Error: return False
except_sqlite3_Error(s) ==
    IF s.ret = "sqlite3.Error" THEN Returns(s, "False") ELSE s

create_reservation(s, resource_id, user_name, date, fault, rolled) ==
    except_sqlite3_Error(
        try_create_reservation(s, resource_id, user_name, date, fault, rolled))

\* The Store calls of remove_reservation_ui: the DELETE on db.cursor, then
\* update_resource(resource_id, available=1), which commits both
remove_reservation(s, reservation_id, resource_id) ==
    update_resource(
        [s EXCEPT !.reservations = {v \in @ : v.id # reservation_id}],
        resource_id, None, None, Some(1))

(***************************************************************************)
(* The state machine.                                                      *)
(***************************************************************************)
Store ==
    [resources |-> resources, reservations |-> reservations, seq |-> seq,
     committed |-> committed, ret |-> "None"]

Apply(s) ==
    /\ resources' = s.resources
    /\ reservations' = s.reservations
    /\ seq' = s.seq
    /\ committed' = s.committed

Idle == [pc |-> "idle", fetched |-> <<>>, index |-> 0, resource_id |-> 0]

\* ResourceReservationSystem() on a new database file, then navigate_home(None)
Init ==
    /\ resources = {}
    /\ reservations = {}
    /\ seq = 0
    /\ committed = [resources |-> {}, reservations |-> {}, seq |-> 0]
    /\ last = [op |-> "init", args |-> <<>>, ret |-> "None"]
    /\ page = "Home"
    /\ resource_ui = <<>>
    /\ reservations_ui = <<>>
    /\ list_ui = <<>>
    /\ password_input = [value |-> "", error_text |-> ""]
    /\ reserve_feedback = ""
    /\ frame = Idle

ResourceIds == 1..MaxResources
ReservationIds == 1..MaxSeq
NameArgs == {None, Some(""), Some("Room B")}
DescriptionArgs == {None, Some(""), Some("big")}
AvailableArgs == {None, Some(0), Some(1)}

(***************************************************************************)
(* Calls of the Store's methods.                                           *)
(***************************************************************************)
AddResourceUpTo(name, description, max) ==
    /\ frame.pc = "idle"
    /\ Cardinality(resources) < max
    /\ LET s == add_resource(Store, name, description)
       IN  /\ Apply(s)
           /\ last' = [op |-> "add_resource", args |-> <<name, description>>,
                       ret |-> s.ret]
    /\ UNCHANGED <<gui, frame>>

AddResource(name, description) ==
    AddResourceUpTo(name, description, MaxResources)

UpdateResource(resource_id, name, description, available) ==
    /\ frame.pc = "idle"
    /\ LET s == update_resource(Store, resource_id, name, description, available)
       IN  /\ Apply(s)
           /\ last' = [op |-> "update_resource",
                       args |-> <<resource_id, name, description, available>>,
                       ret |-> s.ret]
    /\ UNCHANGED <<gui, frame>>

DeleteResource(resource_id) ==
    /\ frame.pc = "idle"
    /\ LET s == delete_resource(Store, resource_id)
       IN  /\ Apply(s)
           /\ last' = [op |-> "delete_resource", args |-> <<resource_id>>,
                       ret |-> s.ret]
    /\ UNCHANGED <<gui, frame>>

CreateReservation(resource_id, user_name, date) ==
    /\ frame.pc = "idle"
    /\ LET s == create_reservation(Store, resource_id, user_name, date,
                                   "none", FALSE)
       IN  /\ s.seq <= MaxSeq
           /\ Apply(s)
           /\ last' = [op |-> "create_reservation",
                       args |-> <<resource_id, user_name, date>>, ret |-> s.ret]
    /\ UNCHANGED <<gui, frame>>

RemoveReservation(reservation_id, resource_id) ==
    /\ frame.pc = "idle"
    /\ LET s == remove_reservation(Store, reservation_id, resource_id)
       IN  /\ Apply(s)
           /\ last' = [op |-> "remove_reservation",
                       args |-> <<reservation_id, resource_id>>, ret |-> s.ret]
    /\ UNCHANGED <<gui, frame>>

Next ==
    \/ \E name \in Names, description \in Descriptions :
            AddResource(name, description)
    \/ \E resource_id \in ResourceIds : DeleteResource(resource_id)
    \/ \E resource_id \in IdParams, user_name \in UserNames, date \in Dates :
            CreateReservation(resource_id, user_name, date)
    \/ \E reservation_id \in ReservationIds, resource_id \in ResourceIds :
            RemoveReservation(reservation_id, resource_id)

Spec == Init /\ [][Next]_vars

\* The Store with update_resource called directly as well
NextUpdate ==
    \/ \E name \in Names, description \in Descriptions :
            AddResource(name, description)
    \/ \E resource_id \in ResourceIds, user_name \in UserNames, date \in Dates :
            CreateReservation(IntParam(resource_id), user_name, date)
    \/ \E resource_id \in ResourceIds, name \in NameArgs,
          description \in DescriptionArgs, available \in AvailableArgs :
            UpdateResource(resource_id, name, description, available)

SpecUpdate == Init /\ [][NextUpdate]_vars

(***************************************************************************)
(* The Store with database errors during create_reservation.               *)
(***************************************************************************)
CreateReservationFault(resource_id, user_name, date, fault, rolled) ==
    /\ frame.pc = "idle"
    /\ LET s == create_reservation(Store, resource_id, user_name, date,
                                   fault, rolled)
       IN  /\ s.seq <= MaxSeq
           /\ Apply(s)
           /\ last' = [op |-> "create_reservation",
                       args |-> <<resource_id, user_name, date, fault, rolled>>,
                       ret |-> s.ret]
    /\ UNCHANGED <<gui, frame>>

NextFault ==
    \/ \E name \in Names, description \in Descriptions :
            AddResource(name, description)
    \/ \E resource_id \in ResourceIds : DeleteResource(resource_id)
    \/ \E resource_id \in ResourceIds, user_name \in UserNames,
          date \in Dates :
            CreateReservation(IntParam(resource_id), user_name, date)
    \/ \E resource_id \in ResourceIds, date \in Dates,
          fault \in FaultSteps, rolled \in BOOLEAN :
            CreateReservationFault(IntParam(resource_id), <<" ", "Bob">>, date,
                                   fault, rolled)

SpecFault == Init /\ [][NextFault]_vars

(***************************************************************************)
(* Properties of the Store (specification Spec).                           *)
(***************************************************************************)
IsBlank(t) == \A i \in 1..Len(t) : t[i] = " "

Matching(rs, p) == {r \in rs : IdEquals(r.id, p)}

\* C1: create_reservation on a resource with available = 1 and a non-blank
\* user_name returns True, inserts exactly one reservation row referencing
\* that resource and sets its available flag to 0; on a resource with
\* available = 0 it returns False and inserts nothing, and a resource stays
\* unavailable until it is released or deleted.
C1_ReserveOnce ==
    /\ [][\A resource_id \in IdParams, user_name \in UserNames, date \in Dates :
            CreateReservation(resource_id, user_name, date)
                /\ ~IsBlank(user_name)
            => \A r \in Matching(resources, resource_id) :
                IF r.available = 1
                THEN /\ last'.ret = "True"
                     /\ reservations \subseteq reservations'
                     /\ Cardinality(reservations' \ reservations) = 1
                     /\ \A v \in reservations' \ reservations :
                            v.resource_id = r.id
                     /\ resources' =
                            (resources \ {r}) \cup {[r EXCEPT !.available = 0]}
                ELSE /\ last'.ret = "False"
                     /\ reservations' = reservations
                     /\ resources' = resources]_vars
    /\ [][last'.op \in {"create_reservation", "add_resource"}
            => \A r \in resources : r.available = 0 => r \in resources']_vars

\* a second attempt on a reserved resource has just returned False
C1_Witness ==
    /\ last.op = "create_reservation"
    /\ last.ret = "False"
    /\ ~IsBlank(last.args[2])
    /\ \E r \in Matching(resources, last.args[1]) :
        /\ r.available = 0
        /\ \E v \in reservations : v.resource_id = r.id

\* C2: create_reservation returns False and leaves both tables unchanged
\* when user_name is empty or whitespace, or resource_id matches no
\* resource, or the matched resource has available = 0.
C2_ReserveFails ==
    [][\A resource_id \in IdParams, user_name \in UserNames, date \in Dates :
            /\ CreateReservation(resource_id, user_name, date)
            /\ \/ IsBlank(user_name)
               \/ Matching(resources, resource_id) = {}
               \/ \E r \in Matching(resources, resource_id) : r.available = 0
            => /\ last'.ret = "False"
               /\ resources' = resources
               /\ reservations' = reservations
               /\ committed' = committed]_vars

\* a whitespace user_name was refused on an existing, available resource
C2_Witness ==
    /\ last.op = "create_reservation"
    /\ last.ret = "False"
    /\ last.args[2] # <<>>
    /\ IsBlank(last.args[2])
    /\ \E r \in Matching(resources, last.args[1]) : r.available = 1

C4_AddResource ==
    [][\A name \in Names, description \in Descriptions :
            AddResource(name, description)
            => /\ resources \subseteq resources'
               /\ resources' \ resources =
                    {[id |-> IF resources = {} THEN 1
                             ELSE Max(Ids(resources)) + 1,
                      name |-> name, description |-> description,
                      available |-> 1]}
               /\ Cardinality(resources') = Cardinality(resources) + 1
               /\ reservations' = reservations]_vars

\* a resource was added to a table that holds a reserved resource
C4_Witness ==
    /\ last.op = "add_resource"
    /\ Cardinality(resources) >= 2
    /\ reservations # {}

\* C7: the resource ids are exactly 1..n, n the number of resources.
C7_ContiguousIds == Ids(resources) = 1..Cardinality(resources)

\* a resource other than the last was deleted and resources remain
C7_Witness ==
    /\ last.op = "delete_resource"
    /\ last.ret = "None"
    /\ resources # {}
    /\ last.args[1] <= Cardinality(resources)

(***************************************************************************)
(* update_resource called directly (specification SpecUpdate).             *)
(***************************************************************************)
Supplied(opt) == opt # None /\ opt # Some("")

\* C10: update_resource(id, name, description, available) completes and
\* changes exactly the fields supplied non-empty (name, description) or
\* non-None (available) on the resource with that id, whatever the
\* combination of supplied and omitted fields, and nothing else.
C10_UpdateFrame ==
    [][\A resource_id \in ResourceIds, name \in NameArgs,
          description \in DescriptionArgs, available \in AvailableArgs :
            UpdateResource(resource_id, name, description, available)
            => /\ last'.ret = "None"
               /\ reservations' = reservations
               /\ resources' =
                    {IF r.id # resource_id THEN r
                     ELSE [id |-> r.id,
                           name |-> IF Supplied(name) THEN name[1] ELSE r.name,
                           description |->
                                IF Supplied(description) THEN description[1]
                                ELSE r.description,
                           available |->
                                IF available # None THEN available[1]
                                ELSE r.available] :
                        r \in resources}]_vars

(***************************************************************************)
(* Database errors (specification SpecFault).                              *)
(***************************************************************************)
\* C8: create_reservation ends with a boolean result; a database error at
\* any of its SQL steps (lookup, insert, availability update, commit) is
\* returned as False and never leaves the call as an exception.
C8_NoEscape ==
    last.op = "create_reservation" => last.ret \in {"True", "False"}

\* the availability UPDATE failed after the INSERT: the call returned False
\* with the inserted row still in the open transaction
C8_Witness ==
    /\ last.op = "create_reservation"
    /\ Len(last.args) = 5
    /\ last.args[4] = "update"
    /\ last.ret = "False"
    /\ reservations # committed.reservations

(***************************************************************************)
(* delete_resource followed statement by statement (specification          *)
(* SpecSteps): the two DELETEs and the SELECT, then one iteration of the   *)
(* loop of _reassign_ids at a time, then the commits.  frame holds the     *)
(* locals of _reassign_ids: the fetched ids and the loop index.            *)
(***************************************************************************)
DeleteBegin(resource_id) ==
    /\ frame.pc = "idle"
    /\ LET s == delete_rows(Store, resource_id)
       IN  /\ Apply(s)
           /\ frame' = [pc |-> "reassign", fetched |-> select_ids(s),
                        index |-> 1, resource_id |-> resource_id]
    /\ last' = [op |-> "delete_resource", args |-> <<resource_id>>,
                ret |-> "running"]
    /\ UNCHANGED gui

ReassignStep ==
    /\ frame.pc = "reassign"
    /\ frame.index <= Len(frame.fetched)
    /\ LET s == reassign_iter(Store, frame.index, frame.fetched[frame.index])
       IN  /\ Apply(s)
           /\ IF s.ret = "None"
              THEN /\ frame' = [frame EXCEPT !.index = @ + 1]
                   /\ UNCHANGED last
              ELSE /\ frame' = Idle
                   /\ last' = [last EXCEPT !.ret = s.ret]
    /\ UNCHANGED gui

DeleteEnd ==
    /\ frame.pc = "reassign"
    /\ frame.index > Len(frame.fetched)
    /\ Apply(commit(commit(Store)))
    /\ frame' = Idle
    /\ last' = [last EXCEPT !.ret = "None"]
    /\ UNCHANGED gui

NextSteps ==
    \/ \E name \in Names, description \in Descriptions :
            AddResourceUpTo(name, description, MaxLoop)
    \/ \E resource_id \in 1..MaxLoop, date \in Dates :
            CreateReservation(IntParam(resource_id), <<" ", "Bob">>, date)
    \/ \E resource_id \in 1..MaxLoop : DeleteBegin(resource_id)
    \/ ReassignStep
    \/ DeleteEnd

SpecSteps == Init /\ [][NextSteps]_vars

\* The id, at this point of the loop, of the j-th fetched resource
CurrentId(f, j) == IF j < f.index THEN j ELSE f.fetched[j]

\* C9: at every intermediate step of _reassign_ids the resource ids are
\* unique (no step assigns an id another resource holds, so no primary-key
\* error is raised), and each step leaves every reservation attached to the
\* resource it was attached to before the step.
C9_ReassignSafe ==
    /\ [](/\ Cardinality(Ids(resources)) = Cardinality(resources)
          /\ last.ret # "sqlite3.IntegrityError"
          /\ frame.pc = "reassign"
                => /\ Ids(resources) =
                        {CurrentId(frame, j) : j \in 1..Len(frame.fetched)}
                   /\ \A i, j \in 1..Len(frame.fetched) :
                        i # j => CurrentId(frame, i) # CurrentId(frame, j))
    /\ [][frame.pc = "reassign" /\ frame.index <= Len(frame.fetched)
            => /\ frame'.pc = "reassign"
               /\ frame'.fetched = frame.fetched
               /\ \A v \in reservations :
                    \E w \in reservations' :
                        /\ w.id = v.id
                        /\ \E j \in 1..Len(frame.fetched) :
                                CurrentId(frame, j) = v.resource_id
                        /\ \A j \in 1..Len(frame.fetched) :
                                (CurrentId(frame, j) = v.resource_id)
                                    <=> (CurrentId(frame', j) = w.resource_id)
               /\ Cardinality(reservations') = Cardinality(reservations)]_vars

\* one iteration has renumbered a reserved resource while another reserved
\* resource still waits under its old id
C9_Witness ==
    /\ frame.pc = "reassign"
    /\ frame.index = 2
    /\ Len(frame.fetched) >= 2
    /\ frame.fetched[1] # 1
    /\ \E v \in reservations : v.resource_id = 1
    /\ \E v \in reservations : v.resource_id = frame.fetched[2]

(***************************************************************************)
(* The Presentation (specification SpecGui): one action per click handler  *)
(* of main.  A handler reads what the user typed into its fields at the    *)
(* click; a Remove button carries the ids captured when its row was        *)
(* rendered.  resource_ui, reservations_ui and list_ui hold the rows of a  *)
(* column while the column is on the page: page.controls.clear() takes it  *)
(* off the page, and every handler that puts a column on the page renders  *)
(* it anew (lines 260-261, 274, 312), so what an off-page column holds is  *)
(* never shown and never clicked.                                          *)
(***************************************************************************)
Password == "ANGCUTEMO"
Passwords == {Password, "angcutemo"}
NameTexts == Names \cup {""}
DescriptionTexts == Descriptions \cup {""}
DateTexts == {<<>>, <<" ", "2024-01-01">>}
\* the list page without a Back button
HasBack_without_list ==
    {"ResourceLogin", "AdminLogin", "ResourceManagement", "AdminSection",
     "ReserveForm"}

HasBack ==
    {"ResourceLogin", "AdminLogin", "ResourceManagement", "AdminSection",
     "ReserveForm", "ListView"}

\* The rows show_resource_ui renders; id is what the Remove button captures
ResourceRows(s) ==
    LET rows == view_resources(s)
    IN  [i \in 1..Len(rows) |->
            [id |-> rows[i].id, name |-> rows[i].name,
             description |-> rows[i].description,
             status |-> IF rows[i].available = 1 THEN "Available"
                        ELSE "Unavailable"]]

\* The rows show_reservations_ui renders; rid and res_id are what the Remove
\* button captures
ReservationRows(s) ==
    LET rows == view_reservations(s)
    IN  [i \in 1..Len(rows) |->
            [rid |-> rows[i].id, res_id |-> rows[i].resource_id,
             name |-> rows[i].name, user_name |-> rows[i].user_name,
             date |-> rows[i].date]]

\* The texts show_list_ui renders
ListRows(s) ==
    LET rs == ResourceRows(s)
        vs == ReservationRows(s)
    IN  <<[text |-> "Resources:"]>> \o rs \o <<[text |-> "Reservations:"]>>
            \o [i \in 1..Len(vs) |->
                    [name |-> vs[i].name, user_name |-> vs[i].user_name,
                     date |-> vs[i].date]]

Did(op, args, ret) == last' = [op |-> op, args |-> args, ret |-> ret]

\* navigate_home: the Back button of every page but Home
navigate_home ==
    /\ page \in HasBack
    /\ page' = "Home"
    /\ resource_ui' = <<>>
    /\ reservations_ui' = <<>>
    /\ list_ui' = <<>>
    /\ Did("navigate_home", <<>>, "None")
    /\ UNCHANGED <<resources, reservations, seq, committed, password_input,
                   reserve_feedback, frame>>

\* resource_login_ui and admin_login_ui: the Resource and Admin buttons of Home
resource_login_ui ==
    /\ page = "Home"
    /\ page' = "ResourceLogin"
    /\ password_input' = [password_input EXCEPT !.value = ""]
    /\ Did("resource_login_ui", <<>>, "None")
    /\ UNCHANGED <<resources, reservations, seq, committed, resource_ui,
                   reservations_ui, list_ui, reserve_feedback, frame>>

admin_login_ui ==
    /\ page = "Home"
    /\ page' = "AdminLogin"
    /\ password_input' = [password_input EXCEPT !.value = ""]
    /\ Did("admin_login_ui", <<>>, "None")
    /\ UNCHANGED <<resources, reservations, seq, committed, resource_ui,
                   reservations_ui, list_ui, reserve_feedback, frame>>

\* The user types into the password field of a login page
TypePassword(value) ==
    /\ page \in {"ResourceLogin", "AdminLogin"}
    /\ password_input.value # value
    /\ password_input' = [password_input EXCEPT !.value = value]
    /\ Did("type_password", <<>>, "None")
    /\ UNCHANGED <<resources, reservations, seq, committed, page, resource_ui,
                   reservations_ui, list_ui, reserve_feedback, frame>>

\* resource_section: the Login button of the resource login page
resource_section ==
    /\ page = "ResourceLogin"
    /\ IF password_input.value = Password
       THEN /\ page' = "ResourceManagement"
            /\ resource_ui' = ResourceRows(Store)
            /\ UNCHANGED password_input
       ELSE /\ password_input' =
                    [password_input EXCEPT !.error_text = "Incorrect password"]
            /\ UNCHANGED <<page, resource_ui>>
    /\ Did("resource_section", <<>>, "None")
    /\ UNCHANGED <<resources, reservations, seq, committed, reservations_ui,
                   list_ui, reserve_feedback, frame>>

\* the Login button without the password comparison
admin_section_unchecked ==
    /\ page = "AdminLogin"
    /\ page' = "AdminSection"
    /\ resource_ui' = ResourceRows(Store)
    /\ reservations_ui' = ReservationRows(Store)
    /\ Did("admin_section", <<>>, "None")
    /\ UNCHANGED <<resources, reservations, seq, committed, list_ui,
                   password_input, reserve_feedback, frame>>

\* admin_section: the Login button of the admin login page
admin_section ==
    /\ page = "AdminLogin"
    /\ IF password_input.value = Password
       THEN /\ page' = "AdminSection"
            /\ resource_ui' = ResourceRows(Store)
            /\ reservations_ui' = ReservationRows(Store)
            /\ UNCHANGED password_input
       ELSE /\ password_input' =
                    [password_input EXCEPT !.error_text = "Incorrect password"]
            /\ UNCHANGED <<page, resource_ui, reservations_ui>>
    /\ Did("admin_section", <<>>, "None")
    /\ UNCHANGED <<resources, reservations, seq, committed, list_ui,
                   reserve_feedback, frame>>

\* reserve_section and list_section: the Reserve and List buttons of Home
reserve_section ==
    /\ page = "Home"
    /\ page' = "ReserveForm"
    /\ Did("reserve_section", <<>>, "None")
    /\ UNCHANGED <<resources, reservations, seq, committed, resource_ui,
                   reservations_ui, list_ui, password_input, reserve_feedback,
                   frame>>

list_section ==
    /\ page = "Home"
    /\ page' = "ListView"
    /\ list_ui' = ListRows(Store)
    /\ Did("list_section", <<>>, "None")
    /\ UNCHANGED <<resources, reservations, seq, committed, resource_ui,
                   reservations_ui, password_input, reserve_feedback, frame>>

\* add_resource_ui: the Add Resource button of the resource management page
add_resource_ui(name, description) ==
    /\ page = "ResourceManagement"
    /\ IF name # "" /\ description # ""
       THEN LET s == add_resource(Store, name, description)
            IN  /\ Cardinality(resources) < MaxResources
                /\ Apply(s)
                /\ resource_ui' = ResourceRows(s)
       ELSE UNCHANGED <<resources, reservations, seq, committed, resource_ui>>
    /\ Did("add_resource_ui", <<>>, "None")
    /\ UNCHANGED <<page, reservations_ui, list_ui, password_input,
                   reserve_feedback, frame>>

\* remove_resource_ui: the Remove button of the i-th row of resource_ui
remove_resource_ui(i) ==
    /\ page \in {"ResourceManagement", "AdminSection"}
    /\ i \in 1..Len(resource_ui)
    /\ LET s == delete_resource(Store, resource_ui[i].id)
       IN  /\ Apply(s)
           /\ resource_ui' = ResourceRows(s)
           /\ Did("remove_resource_ui", <<resource_ui[i].id>>, s.ret)
    /\ UNCHANGED <<page, reservations_ui, list_ui, password_input,
                   reserve_feedback, frame>>

\* remove_reservation_ui: the Remove button of the i-th row of reservations_ui
remove_reservation_ui(i) ==
    /\ page = "AdminSection"
    /\ i \in 1..Len(reservations_ui)
    /\ LET s == remove_reservation(Store, reservations_ui[i].rid,
                                   reservations_ui[i].res_id)
       IN  /\ Apply(s)
           /\ reservations_ui' = ReservationRows(s)
           /\ Did("remove_reservation_ui",
                  <<reservations_ui[i].rid, reservations_ui[i].res_id>>, s.ret)
    /\ UNCHANGED <<page, resource_ui, list_ui, password_input,
                   reserve_feedback, frame>>

\* reserve_resource_ui: the Reserve button of the reservation form.  Its
\* show_resource_ui() renders resource_ui, which is not on this page.
reserve_resource_ui(id_text, name_text, date_text) ==
    /\ page = "ReserveForm"
    /\ LET resource_id == strip(id_text)
           user_name == strip(name_text)
           date == strip(date_text)
       IN  IF resource_id = <<>> \/ user_name = <<>> \/ date = <<>>
           THEN /\ reserve_feedback' = "All fields are required."
                /\ Did("reserve_resource_ui", <<>>, "None")
                /\ UNCHANGED <<resources, reservations, seq, committed>>
           ELSE LET s == create_reservation(Store, TextParam(resource_id),
                                            user_name, date, "none", FALSE)
                IN  /\ s.seq <= MaxGuiSeq
                    /\ Apply(s)
                    /\ reserve_feedback' =
                            IF s.ret = "True" THEN "Reservation successful!"
                            ELSE "Failed to reserve: Resource unavailable or does not exist."
                    /\ Did("reserve_resource_ui", <<>>, s.ret)
    /\ UNCHANGED <<page, resource_ui, reservations_ui, list_ui, password_input,
                   frame>>

NextGui ==
    \/ navigate_home
    \/ resource_login_ui
    \/ admin_login_ui
    \/ \E value \in Passwords : TypePassword(value)
    \/ resource_section
    \/ admin_section
    \/ reserve_section
    \/ list_section
    \/ \E name \in NameTexts, description \in DescriptionTexts :
            add_resource_ui(name, description)
    \/ \E i \in 1..MaxResources : remove_resource_ui(i)
    \/ \E i \in 1..MaxGuiSeq : remove_reservation_ui(i)
    \/ \E id_text \in IdTexts, name_text \in UserNames, date_text \in DateTexts :
            reserve_resource_ui(id_text, name_text, date_text)

SpecGui == Init /\ [][NextGui]_vars

(***************************************************************************)
(* Properties of the Presentation (specification SpecGui).                 *)
(***************************************************************************)
\* C5: every Remove click on a row of the admin section's reservation list
\* deletes that reservation row and leaves the resource the reservation
\* referenced with available = 1.
C5_RemoveFrees ==
    [][\A i \in 1..MaxGuiSeq :
            remove_reservation_ui(i)
            => \A v \in reservations :
                v.id = reservations_ui[i].rid
                => /\ \A w \in reservations' : w.id # v.id
                   /\ \E r \in resources' : r.id = v.resource_id
                   /\ \A r \in resources' :
                        r.id = v.resource_id => r.available = 1]_vars

\* C6: at most one reservation row references any given resource.
C6_OneReservation ==
    \A r \in resources :
        Cardinality({v \in reservations : v.resource_id = r.id}) <= 1

\* C11: ResourceManagement and AdminSection are entered only by a Login
\* click on the corresponding login page while the password field equals
\* the fixed literal; a Login click with any other password stays on the
\* login page, sets the error text and leaves the store alone.
C11_PasswordGate ==
    /\ [][page' = "ResourceManagement" /\ page # "ResourceManagement"
            => /\ page = "ResourceLogin"
               /\ last'.op = "resource_section"
               /\ password_input.value = "ANGCUTEMO"]_vars
    /\ [][page' = "AdminSection" /\ page # "AdminSection"
            => /\ page = "AdminLogin"
               /\ last'.op = "admin_section"
               /\ password_input.value = "ANGCUTEMO"]_vars
    /\ [][last'.op \in {"resource_section", "admin_section"}
                /\ password_input.value # "ANGCUTEMO"
            => /\ page' = page
               /\ page \in {"ResourceLogin", "AdminLogin"}
               /\ password_input'.error_text = "Incorrect password"
               /\ UNCHANGED <<resources, reservations, seq, committed>>]_vars

\* the admin section was entered after an earlier attempt with a wrong password
C11_Witness ==
    /\ page = "AdminSection"
    /\ last.op = "admin_section"
    /\ password_input.error_text = "Incorrect password"
    /\ resources # {}

\* C12: on every page other than Home the Back action is available, and its
\* only effect is the transition to Home: the store, the password field and
\* the feedback text stay as they are.  So Home is one click away from
\* every page.
C12_BackHome ==
    /\ [](page # "Home" => ENABLED navigate_home)
    /\ [][navigate_home
            => /\ page' = "Home"
               /\ UNCHANGED <<resources, reservations, seq, committed,
                              password_input, reserve_feedback>>]_vars

\* Back was clicked with resources and reservations in the store
C12_Witness ==
    /\ last.op = "navigate_home"
    /\ page = "Home"
    /\ resources # {}
    /\ reservations # {}

\* C13: under the GUI's operations a resource has available = 0 exactly
\* when at least one reservation row references it.
C13_AvailableIffReserved ==
    \A r \in resources :
        r.available = 0 <=> \E v \in reservations : v.resource_id = r.id

(***************************************************************************)
(* Store properties, continued (specifications Spec and SpecFault).        *)
(***************************************************************************)
\* C14: every reservation row references an existing resource, so the join
\* of view_reservations returns every reservation row exactly once.
C14_NoOrphans ==
    /\ \A v \in reservations : \E r \in resources : r.id = v.resource_id
    /\ LET rows == view_reservations(Store)
       IN  /\ Len(rows) = Cardinality(reservations)
           /\ \A v \in reservations :
                Cardinality({i \in 1..Len(rows) :
                    /\ rows[i].id = v.id
                    /\ rows[i].resource_id = v.resource_id
                    /\ rows[i].user_name = v.user_name
                    /\ rows[i].date = v.date}) = 1

\* a delete_resource renumbered a resource that has a reservation, and
\* view_reservations shows it under the new id
C14_Witness ==
    /\ last.op = "delete_resource"
    /\ last.ret = "None"
    /\ \E v \in reservations :
        /\ v.resource_id = last.args[1]
        /\ \E i \in 1..Len(view_reservations(Store)) :
            /\ view_reservations(Store)[i].id = v.id
            /\ view_reservations(Store)[i].resource_id = last.args[1]

\* C15: a create_reservation that returns False leaves the persisted store
\* as it was, adds no reservation row, and leaves nothing behind that the
\* next operation's commit would persist.
C15_FailedCallLeavesNothing ==
    /\ [][last'.op = "create_reservation" /\ last'.ret = "False"
            => /\ committed' = committed
               /\ reservations' \subseteq reservations]_vars
    /\ [][last.op = "create_reservation" /\ last.ret = "False"
                /\ last'.op # "create_reservation"
            => {v.id : v \in committed'.reservations}
                    \subseteq {v.id : v \in committed.reservations}]_vars

(***************************************************************************)
(* GUI properties, continued (specification SpecGui).                      *)
(***************************************************************************)
\* C16: after every GUI action that changes the store, the lists shown on
\* the current page equal the tables: the resource rows on the resource
\* management page, the resource rows and the reservation rows (with the ids
\* their Remove buttons carry) on the admin page.
C16_ListsMatchStore ==
    last.op \in {"add_resource_ui", "remove_resource_ui",
                 "remove_reservation_ui", "reserve_resource_ui"}
    => /\ page = "ResourceManagement" => resource_ui = ResourceRows(Store)
       /\ page = "AdminSection"
            => /\ resource_ui = ResourceRows(Store)
               /\ reservations_ui = ReservationRows(Store)
====
